---------------------------- MODULE Spec2Model ----------------------------
(***************************************************************************)
(* rsort: streaming, case-insensitive line deduplication.                  *)
(*                                                                         *)
(* The model follows src/src/chunk_processor.rs (find_chunk_boundaries,    *)
(* process_chunk_stream, hash_string), src/src/deduplicator.rs             *)
(* (Deduplicator::process) and src/src/progress.rs (ProgressTracker).      *)
(*                                                                         *)
(* A file is a sequence of bytes (integers).  Offsets are 0-based as in    *)
(* the source: the byte at offset o of file f is f[o + 1].                 *)
(***************************************************************************)
EXTENDS Integers, Sequences, FiniteSets, TLC

(***************************************************************************)
(* Bounds of the model.                                                    *)
(***************************************************************************)
\* longest input file enumerated byte by byte
MaxLen == 5
\* recovery cap of find_chunk_boundaries: the literal 10000 of
\* chunk_processor.rs:162, scaled down so that both sides of the cap
\* (a '\n' found in time, the cap exceeded) occur in files of MaxLen bytes
SkipCap == 2
\* number of runs of the tool in one behaviour (the second run reads the
\* output of the first)
MaxPass == 2

(***************************************************************************)
(* Program constants.                                                      *)
(***************************************************************************)
\* chunk_processor.rs:115  global_seen.len() % 100_000 == 0
FlushEverySeen == 100000
\* deduplicator.rs:92  (idx + 1) % 50 == 0
FlushEveryChunks == 50

(***************************************************************************)
(* Bytes.                                                                  *)
(***************************************************************************)
NL == 10
\* 'a', 'A', 'b', '\n' and 0xFF.  0xFF occurs in no valid UTF-8 sequence;
\* every other byte of the model is ASCII.
Alphabet == {97, 65, 98, NL, 255}

\* "Apple\napple\nBanana\nAPPLE\n"
AppleFile ==
    << 65, 112, 112, 108, 101, 10,
       97, 112, 112, 108, 101, 10,
       66, 97, 110, 97, 110, 97, 10,
       65, 80, 80, 76, 69, 10 >>

\* "Apple\nBanana\n"
AppleOutput ==
    << 65, 112, 112, 108, 101, 10,
       66, 97, 110, 97, 110, 97, 10 >>

SeqsUpTo(S, n) == UNION { [1..k -> S] : k \in 0..n }

Files == SeqsUpTo(Alphabet, MaxLen) \cup {AppleFile}

Min(S) == CHOOSE x \in S : \A y \in S : x <= y

(***************************************************************************)
(* std::io::BufRead::read_line as the two functions call it.               *)
(*                                                                         *)
(* read_until(b'\n') consumes the bytes from the reader's position up to   *)
(* and including the first '\n', or up to end of file.  read_line then     *)
(* validates the consumed bytes: if they are not UTF-8 it returns          *)
(* Err(InvalidData) and leaves the String unchanged, but the bytes stay    *)
(* consumed.                                                               *)
(***************************************************************************)
\* str::from_utf8 on the bytes of the model's alphabet: ASCII is valid,
\* a byte >= 0x80 standing alone (0xFF) is not
ValidUtf8(s) == \A i \in 1..Len(s) : s[i] < 128

\* number of bytes read_until consumes at offset pos
LineLen(f, pos) ==
    IF pos >= Len(f) THEN 0
    ELSE LET nls == { i \in (pos + 1)..Len(f) : f[i] = NL }
         IN  IF nls = {} THEN Len(f) - pos ELSE Min(nls) - pos

\* n: bytes consumed; ok: Ok(n) (TRUE) or Err(InvalidData) (FALSE);
\* line: the String after the call (empty on Err)
read_line(f, pos) ==
    LET n  == LineLen(f, pos)
        bs == SubSeq(f, pos + 1, pos + n)
    IN  [ n |-> n, ok |-> ValidUtf8(bs), line |-> IF ValidUtf8(bs) THEN bs ELSE << >> ]

(***************************************************************************)
(* hash_string, chunk_processor.rs:20-25.                                  *)
(***************************************************************************)
\* the lowercasing left out
to_lowercase_missing(s) == s

\* str::to_lowercase on ASCII text
to_lowercase(s) ==
    [ i \in 1..Len(s) |-> IF s[i] >= 65 /\ s[i] <= 90 THEN s[i] + 32 ELSE s[i] ]

\* DefaultHasher: a fixed-width fingerprint of the bytes fed to it.  The
\* model folds the bytes into a number below 1000003; HasherInjective
\* below checks that, like SipHash on these inputs, it maps no two
\* different lines of the model to the same value.
RECURSIVE HashBytes(_, _, _)
HashBytes(s, i, h) ==
    IF i > Len(s) THEN h
    ELSE HashBytes(s, i + 1, (h * 257 + s[i] + 1) % 1000003)

DefaultHasher(s) == HashBytes(s, 1, 7)

hash_string(s) == DefaultHasher(to_lowercase(s))

(***************************************************************************)
(* find_chunk_boundaries, chunk_processor.rs:123-220.                      *)
(*                                                                         *)
(* The locals of the function as a record:                                 *)
(*   rpos            position of `reader` in the file                      *)
(*   current_offset, chunk_start, chunk_size, chunks   as in the source    *)
(*   cap_hit         history: the skipping loop left through line 162-165  *)
(***************************************************************************)
Chunk(s, e) == [ start_offset |-> s, end_offset |-> e ]

\* lines 127-134
ScanInit ==
    [ rpos |-> 0, current_offset |-> 0, chunk_start |-> 0, chunk_size |-> 0,
      chunks |-> << >>, cap_hit |-> FALSE ]

\* the chunk closed at its target size, wherever that falls in the line
FinalizeAtTargetSize(s, cs) ==
    IF s.chunk_size >= cs
    THEN [ s EXCEPT !.chunks = Append(@, Chunk(s.chunk_start, s.chunk_start + cs)),
                    !.chunk_start = s.chunk_start + cs,
                    !.chunk_size = s.current_offset - (s.chunk_start + cs) ]
    ELSE s

\* the chunk closed only once the size is exceeded
FinalizeWhenExceeded(s, cs) ==
    IF s.chunk_size > cs
    THEN [ s EXCEPT !.chunks = Append(@, Chunk(s.chunk_start, s.current_offset)),
                    !.chunk_start = s.current_offset,
                    !.chunk_size = 0 ]
    ELSE s

\* lines 171-178 and 193-200: close the chunk when the size is reached
FinalizeIfFull(s, cs) ==
    IF s.chunk_size >= cs
    THEN [ s EXCEPT !.chunks = Append(@, Chunk(s.chunk_start, s.current_offset)),
                    !.chunk_start = s.current_offset,
                    !.chunk_size = 0 ]
    ELSE s

\* lines 140-143, then 193-200: Ok(bytes_read)
OnLineRead(f, s, cs) ==
    LET r == read_line(f, s.rpos)
    IN  FinalizeIfFull([ s EXCEPT !.rpos = @ + r.n,
                                  !.chunk_size = @ + r.n,
                                  !.current_offset = @ + r.n ], cs)

\* lines 154-167: read one byte at a time from offset q, having skipped
\* `skipped` bytes; stops at '\n', at end of file, or past the cap
RECURSIVE SkipBytes(_, _, _)
SkipBytes(f, q, skipped) ==
    IF q >= Len(f) THEN [ skipped |-> skipped, found_newline |-> FALSE ]
    ELSE IF f[q + 1] = NL THEN [ skipped |-> skipped + 1, found_newline |-> TRUE ]
    ELSE IF skipped + 1 > SkipCap
         THEN [ skipped |-> skipped + 1, found_newline |-> FALSE ]
    ELSE SkipBytes(f, q + 1, skipped + 1)

\* the byte-skipping loop runs on the reader, which read_line has already
\* moved past the undecodable line
Recovery(f, s) == SkipBytes(f, s.rpos + read_line(f, s.rpos).n, 0)

\* lines 144-184: Err(InvalidData).  current_offset and chunk_size grow by
\* the bytes the skipping loop read, rpos also by the undecodable line.
OnDecodeError(f, s, cs) ==
    LET r  == read_line(f, s.rpos)
        k  == Recovery(f, s)
        t  == [ s EXCEPT !.rpos = @ + r.n + k.skipped,
                         !.current_offset = @ + k.skipped,
                         !.chunk_size = @ + k.skipped,
                         !.cap_hit = ~ k.found_newline /\ k.skipped > SkipCap ]
    IN  IF k.found_newline THEN FinalizeIfFull(t, cs) ELSE t

\* the fallback chunk of lines 211-217 left out
EndOfScanNoFallback(s) ==
    IF s.chunk_size > 0
    THEN [ s EXCEPT !.chunks = Append(@, Chunk(s.chunk_start, s.current_offset)) ]
    ELSE s

\* lines 203-217: after the loop
EndOfScan(s) ==
    LET t == IF s.chunk_size > 0
             THEN [ s EXCEPT !.chunks = Append(@, Chunk(s.chunk_start, s.current_offset)) ]
             ELSE s
    IN  IF t.chunks = << >>
        THEN [ t EXCEPT !.chunks = << Chunk(0, t.current_offset) >> ]
        ELSE t

\* the whole scan as a function: the loop of lines 136-201
RECURSIVE ScanLoop(_, _, _)
ScanLoop(f, s, cs) ==
    LET r == read_line(f, s.rpos)
    IN  IF r.ok
        THEN IF r.n = 0 THEN s ELSE ScanLoop(f, OnLineRead(f, s, cs), cs)
        ELSE IF Recovery(f, s).found_newline
             THEN ScanLoop(f, OnDecodeError(f, s, cs), cs)
             ELSE OnDecodeError(f, s, cs)

find_chunk_boundaries(f, cs) == EndOfScan(ScanLoop(f, ScanInit, cs)).chunks

(***************************************************************************)
(* process_chunk_stream, chunk_processor.rs:27-121.                        *)
(*                                                                         *)
(* The state shared by all chunk invocations of one run, as a record:      *)
(*   global_seen                       the HashSet<u64>                    *)
(*   written                           the bytes given to the BufWriter    *)
(*   flushed                           how many of them reached the file   *)
(*   lines_processed, duplicates_removed   the ProgressTracker counters    *)
(*   emitted                           history: the file offsets of the    *)
(*                                     lines given to write_all, in order  *)
(***************************************************************************)
\* deduplicator.rs:30 and 63-66
RunInit ==
    [ global_seen |-> {}, written |-> << >>, flushed |-> 0,
      lines_processed |-> 0, duplicates_removed |-> 0, emitted |-> << >> ]

\* progress.rs:35-37
increment_lines(w, count) == [ w EXCEPT !.lines_processed = @ + count ]

\* the duplicate not counted
increment_duplicates_missing(w, count) == w

\* progress.rs:48-50
increment_duplicates(w, count) == [ w EXCEPT !.duplicates_removed = @ + count ]

\* the flush left out
flush_missing(w) == w

\* BufWriter::flush
flush(w) == [ w EXCEPT !.flushed = Len(w.written) ]

\* lines 106-112: insert returns true when the hash was not in the set
InsertAndWrite(w, hash, line, at) ==
    IF hash \notin w.global_seen
    THEN [ w EXCEPT !.global_seen = @ \cup {hash},
                    !.written = @ \o line,
                    !.emitted = Append(@, at) ]
    ELSE increment_duplicates(w, 1)

\* lines 114-117
PeriodicFlush(w) ==
    IF Cardinality(w.global_seen) % FlushEverySeen = 0 THEN flush(w) ELSE w

\* lines 94-117: the body of the loop after a read of r.n > 0 bytes at
\* offset `at`
OnLine(w, r, at) ==
    IF Len(r.line) = 0 /\ r.n = 1
    THEN w
    ELSE PeriodicFlush(
           InsertAndWrite(increment_lines(w, 1),
                          hash_string(to_lowercase(r.line)), r.line, at))

\* a start at the end of the file refused as well
StartStrictlyInside(f, chunk) == chunk.start_offset < Len(f)

\* lines 38-45
StartAccepted(f, chunk) == ~ (chunk.start_offset > Len(f))

\* lines 72-75 and 88-90: the loop is left
LoopEnds(f, chunk, off, rp) ==
    off >= chunk.end_offset \/ (read_line(f, rp).ok /\ read_line(f, rp).n = 0)

\* lines 72-118 as a function: the result of the call, from offset off
RECURSIVE ChunkLoop(_, _, _, _)
ChunkLoop(f, chunk, off, w) ==
    IF LoopEnds(f, chunk, off, off) THEN [ ok |-> TRUE, w |-> w ]
    ELSE LET r == read_line(f, off)
         IN  IF ~ r.ok THEN [ ok |-> FALSE, w |-> w ]
             ELSE ChunkLoop(f, chunk, off + r.n, OnLine(w, r, off))

process_chunk_stream(f, chunk, w) ==
    IF StartAccepted(f, chunk)
    THEN ChunkLoop(f, chunk, chunk.start_offset, w)
    ELSE [ ok |-> FALSE, w |-> w ]

(***************************************************************************)
(* Deduplicator::process, deduplicator.rs:29-104.                          *)
(***************************************************************************)
\* lines 42-51
ChunksValid(f, chs) == \A i \in 1..Len(chs) : ~ (chs[i].start_offset > Len(f))

\* a set of its own for every call
LendFreshSet(w) == [ w EXCEPT !.global_seen = {} ]

\* lines 76-82: the one writer, set and tracker of the run are lent to
\* every call
LendToChunk(w) == w

\* lines 91-94, after chunk number i (1-based, the source's idx + 1)
FlushAfterChunk(w, i) == IF i % FlushEveryChunks = 0 THEN flush(w) ELSE w

\* a chunk failed: `?` returns the error, which drops the BufWriter; its
\* Drop writes the buffer out
OnChunkError(w) == flush(w)

\* the failed call tried again
AfterChunkErrorRetry == "next_chunk"

\* lines 83-89: where process() is after a failed call: the error is
\* returned
AfterChunkError == "failed"

\* lines 70-95 as a function, from chunk i
RECURSIVE ForChunks(_, _, _, _)
ForChunks(f, chs, i, w) ==
    IF i > Len(chs) THEN [ ok |-> TRUE, w |-> flush(w) ]
    ELSE LET res == process_chunk_stream(f, chs[i], LendToChunk(w))
         IN  IF res.ok THEN ForChunks(f, chs, i + 1, FlushAfterChunk(res.w, i))
             ELSE [ ok |-> FALSE, w |-> OnChunkError(res.w) ]

\* the run as a function of the input file and the chunk size
process(f, cs) ==
    LET chs == find_chunk_boundaries(f, cs)
    IN  IF ChunksValid(f, chs) THEN ForChunks(f, chs, 1, RunInit)
        ELSE [ ok |-> FALSE, w |-> RunInit ]

\* the bytes of the output file
FileOf(w) == SubSeq(w.written, 1, w.flushed)

(***************************************************************************)
(* The state machine.                                                      *)
(***************************************************************************)
VARIABLES
    file,               \* the input file's bytes
    chunk_size_bytes,   \* Deduplicator.chunk_size_bytes
    pass,               \* which run of the tool this is
    pc,                 \* "scan", "validate", "next_chunk", "in_chunk", "done", "failed"
    scan,               \* the locals of find_chunk_boundaries
    chunks,             \* the Vec<Chunk> it returned
    idx,                \* the chunk of the for loop, 1-based
    offset,             \* current_offset of process_chunk_stream
    reader,             \* position of its BufReader in the file
    run,                \* global_seen, writer and counters of the run
    invoked,            \* history: the chunks process_chunk_stream was called for
    failed_chunk        \* history: the chunk whose call failed, or 0

vars == << file, chunk_size_bytes, pass, pc, scan, chunks, idx, offset, reader,
           run, invoked, failed_chunk >>

ChunkSizes(f) == 1..(Len(f) + 1)

\* main.rs:99-105: a Deduplicator for the file, process() entered
Start(f, cs, p) ==
    /\ file = f
    /\ chunk_size_bytes = cs
    /\ pass = p
    /\ pc = "scan"
    /\ scan = ScanInit
    /\ chunks = << >>
    /\ idx = 0
    /\ offset = 0
    /\ reader = 0
    /\ run = RunInit
    /\ invoked = << >>
    /\ failed_chunk = 0

Init == \E f \in Files : \E cs \in ChunkSizes(f) : Start(f, cs, 1)

ScanUnchanged == UNCHANGED << file, chunk_size_bytes, pass, chunks, idx, offset,
                              reader, run, invoked, failed_chunk >>

\* chunk_processor.rs:138-143, 193-200: a line was read
ScanLine ==
    /\ pc = "scan"
    /\ read_line(file, scan.rpos).ok
    /\ read_line(file, scan.rpos).n > 0
    /\ scan' = OnLineRead(file, scan, chunk_size_bytes)
    /\ pc' = "scan"
    /\ ScanUnchanged

\* chunk_processor.rs:144-184: the line is not UTF-8; recover, then either
\* continue the loop or leave it and finish (lines 203-219)
ScanDecodeError ==
    /\ pc = "scan"
    /\ ~ read_line(file, scan.rpos).ok
    /\ IF Recovery(file, scan).found_newline
       THEN /\ scan' = OnDecodeError(file, scan, chunk_size_bytes)
            /\ pc' = "scan"
            /\ UNCHANGED chunks
       ELSE /\ scan' = EndOfScan(OnDecodeError(file, scan, chunk_size_bytes))
            /\ chunks' = scan'.chunks
            /\ pc' = "validate"
    /\ UNCHANGED << file, chunk_size_bytes, pass, idx, offset, reader, run,
                    invoked, failed_chunk >>

\* chunk_processor.rs:139, 203-219: end of file
ScanEof ==
    /\ pc = "scan"
    /\ read_line(file, scan.rpos).ok
    /\ read_line(file, scan.rpos).n = 0
    /\ scan' = EndOfScan(scan)
    /\ chunks' = scan'.chunks
    /\ pc' = "validate"
    /\ UNCHANGED << file, chunk_size_bytes, pass, idx, offset, reader, run,
                    invoked, failed_chunk >>

\* deduplicator.rs:38-69: validate the chunks, create the output, the set
Validate ==
    /\ pc = "validate"
    /\ IF ChunksValid(file, chunks)
       THEN /\ pc' = "next_chunk"
            /\ idx' = 1
            /\ run' = RunInit
       ELSE /\ pc' = "failed"
            /\ UNCHANGED << idx, run >>
    /\ UNCHANGED << file, chunk_size_bytes, pass, scan, chunks, offset, reader,
                    invoked, failed_chunk >>

\* deduplicator.rs:70-82, chunk_processor.rs:34-70: the call for chunk idx
ChunkBegin ==
    /\ pc = "next_chunk"
    /\ idx <= Len(chunks)
    /\ invoked' = Append(invoked, idx)
    /\ IF StartAccepted(file, chunks[idx])
       THEN /\ pc' = "in_chunk"
            /\ reader' = chunks[idx].start_offset
            /\ offset' = chunks[idx].start_offset
            /\ run' = LendToChunk(run)
            /\ UNCHANGED failed_chunk
       ELSE /\ pc' = AfterChunkError
            /\ failed_chunk' = idx
            /\ run' = OnChunkError(run)
            /\ UNCHANGED << reader, offset >>
    /\ UNCHANGED << file, chunk_size_bytes, pass, scan, chunks, idx >>

\* chunk_processor.rs:72-118: one iteration that reads a line
ChunkLine ==
    /\ pc = "in_chunk"
    /\ ~ LoopEnds(file, chunks[idx], offset, reader)
    /\ read_line(file, reader).ok
    /\ LET r == read_line(file, reader)
       IN  /\ reader' = reader + r.n
           /\ offset' = offset + r.n
           /\ run' = OnLine(run, r, reader)
    /\ UNCHANGED << file, chunk_size_bytes, pass, pc, scan, chunks, idx, invoked,
                    failed_chunk >>

\* chunk_processor.rs:78-86, deduplicator.rs:83-89: read_line fails, the
\* error leaves process_chunk_stream and process
ChunkReadError ==
    /\ pc = "in_chunk"
    /\ ~ LoopEnds(file, chunks[idx], offset, reader)
    /\ ~ read_line(file, reader).ok
    /\ pc' = AfterChunkError
    /\ failed_chunk' = idx
    /\ run' = OnChunkError(run)
    /\ UNCHANGED << file, chunk_size_bytes, pass, scan, chunks, idx, offset,
                    reader, invoked >>

\* chunk_processor.rs:73-75, 88-90, 120; deduplicator.rs:91-95
ChunkEnd ==
    /\ pc = "in_chunk"
    /\ LoopEnds(file, chunks[idx], offset, reader)
    /\ run' = FlushAfterChunk(run, idx)
    /\ idx' = idx + 1
    /\ pc' = "next_chunk"
    /\ UNCHANGED << file, chunk_size_bytes, pass, scan, chunks, offset, reader,
                    invoked, failed_chunk >>

\* deduplicator.rs:97-103
Finish ==
    /\ pc = "next_chunk"
    /\ idx > Len(chunks)
    /\ run' = flush(run)
    /\ pc' = "done"
    /\ UNCHANGED << file, chunk_size_bytes, pass, scan, chunks, idx, offset,
                    reader, invoked, failed_chunk >>

\* main.rs:99-105 again: the tool is run on the output file of a
\* successful run, with any chunk size
Rerun ==
    /\ pc = "done"
    /\ pass < MaxPass
    /\ file' = FileOf(run)
    /\ chunk_size_bytes' \in ChunkSizes(FileOf(run))
    /\ pass' = pass + 1
    /\ pc' = "scan"
    /\ scan' = ScanInit
    /\ chunks' = << >>
    /\ idx' = 0
    /\ offset' = 0
    /\ reader' = 0
    /\ run' = RunInit
    /\ invoked' = << >>
    /\ failed_chunk' = 0

Next ==
    \/ ScanLine
    \/ ScanDecodeError
    \/ ScanEof
    \/ Validate
    \/ ChunkBegin
    \/ ChunkLine
    \/ ChunkReadError
    \/ ChunkEnd
    \/ Finish
    \/ Rerun

Spec == Init /\ [][Next]_vars

(***************************************************************************)
(* The run with an input file that shrinks while it is processed.          *)
(*                                                                         *)
(* process() and every call of process_chunk_stream read the file's size   *)
(* anew (get_file_size), after the chunks were computed.  Here another     *)
(* process may truncate the file between the scan and the validation and   *)
(* between two calls of process_chunk_stream.                              *)
(***************************************************************************)
\* 'a', '\n' and 0xFF
TruncFiles == SeqsUpTo({97, NL, 255}, MaxLen)

InitTrunc == \E f \in TruncFiles : \E cs \in ChunkSizes(f) : Start(f, cs, 1)

\* chunk_processor.rs:13-18, 35: the size found is the size the file has now
Truncate ==
    /\ pc \in { "validate", "next_chunk" }
    /\ \E k \in 0..(Len(file) - 1) : file' = SubSeq(file, 1, k)
    /\ UNCHANGED << chunk_size_bytes, pass, pc, scan, chunks, idx, offset, reader,
                    run, invoked, failed_chunk >>

NextTrunc ==
    \/ ScanLine
    \/ ScanDecodeError
    \/ ScanEof
    \/ Validate
    \/ ChunkBegin
    \/ ChunkLine
    \/ ChunkReadError
    \/ ChunkEnd
    \/ Finish
    \/ Truncate

SpecTrunc == InitTrunc /\ [][NextTrunc]_vars

TypeOK ==
    /\ pc \in { "scan", "validate", "next_chunk", "in_chunk", "done", "failed" }
    /\ run.flushed <= Len(run.written)
    /\ pass \in 1..MaxPass

(***************************************************************************)
(* The input seen as lines, independently of the code that reads it.       *)
(***************************************************************************)
\* offsets at which a line of f starts
LineStarts(f) == { a \in 0..(Len(f) - 1) : a = 0 \/ f[a] = NL }

\* 1-based index of the terminator of the line starting at offset a, or
\* Len(f) + 1 for the unterminated final line
LineStop(f, a) ==
    LET nls == { i \in (a + 1)..Len(f) : f[i] = NL }
    IN  IF nls = {} THEN Len(f) + 1 ELSE Min(nls)

\* the line without its terminator
Content(f, a) == SubSeq(f, a + 1, LineStop(f, a) - 1)

\* the line's bytes as they stand in the file, terminator included
Raw(f, a) ==
    SubSeq(f, a + 1, IF LineStop(f, a) > Len(f) THEN Len(f) ELSE LineStop(f, a))

Decodable(f, a) == \A i \in 1..Len(Raw(f, a)) : Raw(f, a)[i] # 255

FoldCase(s) ==
    [ i \in 1..Len(s) |-> IF s[i] \in 65..90 THEN s[i] + 32 ELSE s[i] ]

EqualIgnoringCase(x, y) == FoldCase(x) = FoldCase(y)

\* a is the first line of f with its content, ignoring case
FirstOccurrence(f, a) ==
    \A b \in LineStarts(f) : b < a => ~ EqualIgnoringCase(Content(f, b), Content(f, a))

\* the decodable first-occurrence lines from offset a on, verbatim, in order
RECURSIVE FirstOccurrenceBytes(_, _)
FirstOccurrenceBytes(f, a) ==
    IF a >= Len(f) THEN << >>
    ELSE (IF FirstOccurrence(f, a) /\ Decodable(f, a) THEN Raw(f, a) ELSE << >>)
         \o FirstOccurrenceBytes(f, a + Len(Raw(f, a)))

Emitted == { run.emitted[i] : i \in 1..Len(run.emitted) }

\* the fingerprint separates the lines of the file as SipHash does: equal
\* values only for lines equal after lowercasing
HasherInjective ==
    \A a, b \in LineStarts(file) :
        hash_string(Raw(file, a)) = hash_string(Raw(file, b))
            => to_lowercase(Raw(file, a)) = to_lowercase(Raw(file, b))

(***************************************************************************)
(* C1.  After a successful run, of two input lines whose content is equal  *)
(* ignoring case (terminated or the unterminated final line) at most one   *)
(* is in the output, and it is the earlier one: the later one is never     *)
(* written.                                                                *)
(***************************************************************************)
C1_GlobalDedup ==
    pc = "done" =>
        \A a, b \in LineStarts(file) :
            (a < b /\ EqualIgnoringCase(Content(file, a), Content(file, b)))
                => b \notin Emitted

(***************************************************************************)
(* C2.  After a successful run the output is the first-occurrence lines    *)
(* of the input (first among lines equal ignoring case), in input order,   *)
(* each with the bytes it has in the input.                                *)
(***************************************************************************)
C2_OrderPreserved ==
    pc = "done" => FileOf(run) = FirstOccurrenceBytes(file, 0)

(***************************************************************************)
(* C3.  The outcome of a run and the bytes of its output file do not       *)
(* depend on the chunk size: they are those of the run whose chunk size    *)
(* exceeds the file size (the file processed as one chunk).                *)
(***************************************************************************)
C3_ChunkSizeInvariance ==
    pc \in { "done", "failed" } =>
        LET one == process(file, Len(file) + 1)
        IN  /\ one.ok <=> pc = "done"
            /\ FileOf(one.w) = FileOf(run)

\* a run over three or more chunks, each smaller than the file, that
\* removed a duplicate
C3_Witness ==
    /\ pc = "done"
    /\ Len(chunks) >= 3
    /\ chunk_size_bytes < Len(file)
    /\ run.duplicates_removed >= 1

(***************************************************************************)
(* C4.  A run on the output of a successful run, with any chunk size,      *)
(* writes an output file equal byte for byte to its input.                 *)
(***************************************************************************)
C4_RerunIdempotent ==
    (pass = 2 /\ pc = "done") => FileOf(run) = file

\* the second run finished over several chunks of several lines
C4_Witness ==
    /\ pass = 2
    /\ pc = "done"
    /\ Len(chunks) >= 2
    /\ run.lines_processed >= 3

(***************************************************************************)
(* C5.  An input with an undecodable line no longer than the recovery cap  *)
(* followed by a decodable line: the run does not fail, and when it has    *)
(* finished that decodable line is in the output (itself, or the earlier   *)
(* line it duplicates).                                                    *)
(***************************************************************************)
\* b starts a decodable line that directly follows an undecodable,
\* terminated line of at most SkipCap bytes
FollowsShortInvalidRun(f, b) ==
    \E a \in LineStarts(f) :
        /\ ~ Decodable(f, a)
        /\ Len(Raw(f, a)) <= SkipCap
        /\ b = a + Len(Raw(f, a))
        /\ b \in LineStarts(f)
        /\ Decodable(f, b)

C5_RecoveryScenario ==
    \A b \in LineStarts(file) :
        FollowsShortInvalidRun(file, b) =>
            /\ pc # "failed"
            /\ pc = "done" =>
                 \E e \in Emitted :
                     EqualIgnoringCase(Content(file, e), Content(file, b))

(***************************************************************************)
(* C6.  Every chunk find_chunk_boundaries returns ends on a line boundary: *)
(* the byte before end_offset is '\n', or end_offset is the file size (or  *)
(* the start of the file).                                                 *)
(***************************************************************************)
C6_BoundaryCorrectness ==
    pc # "scan" =>
        \A i \in 1..Len(chunks) :
            \/ chunks[i].end_offset = Len(file)
            \/ chunks[i].end_offset = 0
            \/ /\ chunks[i].end_offset \in 1..Len(file)
               /\ file[chunks[i].end_offset] = NL

(***************************************************************************)
(* C7.  When the scan did not hit the recovery cap, the chunks returned    *)
(* have start_offset <= end_offset, the first starts at 0, each starts     *)
(* where the previous one ends, and the last ends at the file size.        *)
(***************************************************************************)
C7_ChunksCoverFile ==
    (pc # "scan" /\ ~ scan.cap_hit) =>
        /\ Len(chunks) >= 1
        /\ chunks[1].start_offset = 0
        /\ \A i \in 1..Len(chunks) : chunks[i].start_offset <= chunks[i].end_offset
        /\ \A i \in 2..Len(chunks) : chunks[i].start_offset = chunks[i - 1].end_offset
        /\ chunks[Len(chunks)].end_offset = Len(file)

(***************************************************************************)
(* C8.  For a zero-byte input the scan returns the one chunk {0, 0}, the   *)
(* run never fails, nothing is written and both counters stay 0.           *)
(***************************************************************************)
C8_EmptyFile ==
    Len(file) = 0 =>
        /\ pc # "failed"
        /\ pc # "scan" => chunks = << Chunk(0, 0) >>
        /\ run.written = << >>
        /\ run.lines_processed = 0
        /\ run.duplicates_removed = 0

\* the run on the empty file has finished
C8_Witness == Len(file) = 0 /\ pass = 1 /\ pc = "done"

(***************************************************************************)
(* C9.  The run on "Apple\napple\nBanana\nAPPLE\n" ends, for every chunk   *)
(* size, with the output "Apple\nBanana\n", lines_processed = 4 and        *)
(* duplicates_removed = 2.  In every run, a step that reads a line with    *)
(* content adds one to lines_processed; if the line's fingerprint is in    *)
(* the set it adds one to duplicates_removed and writes nothing,           *)
(* otherwise it leaves duplicates_removed alone.                           *)
(***************************************************************************)
C9_LineStep ==
    (pc = "in_chunk" /\ reader' # reader /\ Len(Content(file, reader)) > 0) =>
        /\ run'.lines_processed = run.lines_processed + 1
        /\ IF hash_string(to_lowercase(read_line(file, reader).line)) \in run.global_seen
           THEN /\ run'.duplicates_removed = run.duplicates_removed + 1
                /\ run'.written = run.written
           ELSE /\ run'.duplicates_removed = run.duplicates_removed

C9_AppleEnd ==
    (file = AppleFile /\ pc' \in { "done", "failed" }) =>
        /\ pc' = "done"
        /\ FileOf(run') = AppleOutput
        /\ run'.lines_processed = 4
        /\ run'.duplicates_removed = 2

C9_AppleScenario == [][C9_LineStep /\ C9_AppleEnd]_vars

\* the run on the Apple file, one line per chunk, has finished
C9_Witness ==
    /\ file = AppleFile
    /\ chunk_size_bytes = 1
    /\ pc = "done"
    /\ Len(chunks) = 4

(***************************************************************************)
(* C10.  When the call for chunk k fails, process() is over: the state is  *)
(* "failed" and nothing happens after it; process_chunk_stream has been    *)
(* called once for each of the chunks 1..k and for no other, and no line   *)
(* that starts at or after the end of chunk k has been written.            *)
(***************************************************************************)
C10_FailedNow ==
    failed_chunk' # 0 =>
        /\ pc' = "failed"
        /\ invoked' = [ i \in 1..failed_chunk' |-> i ]
        /\ \A i \in 1..Len(run'.emitted) :
               run'.emitted[i] < chunks'[failed_chunk'].end_offset

C10_FailFast == [][pc # "failed" /\ C10_FailedNow]_vars

\* the call failed for a chunk that is not the last one
C10_Witness ==
    /\ pc = "failed"
    /\ failed_chunk >= 1
    /\ failed_chunk < Len(chunks)

(***************************************************************************)
(* C12.  A line that is only its terminator is skipped: it is never        *)
(* written, its fingerprint is never in the set, and lines_processed       *)
(* counts at most the lines of the file that have content.                 *)
(***************************************************************************)
LinesWithContent(f) == { a \in LineStarts(f) : Len(Content(f, a)) > 0 }

C12_EmptyLineSkipped ==
    /\ \A i \in 1..Len(run.emitted) : Len(Content(file, run.emitted[i])) > 0
    /\ hash_string(to_lowercase(<< NL >>)) \notin run.global_seen
    /\ run.lines_processed <= Cardinality(LinesWithContent(file))

C14_OffsetIsBytesConsumed ==
    pc = "scan" =>
        /\ scan.current_offset = scan.rpos
        /\ scan.chunk_size = scan.current_offset - scan.chunk_start

(***************************************************************************)
(* C15.  When the recovery cap was exceeded the scan has returned chunks   *)
(* that start at 0, follow one another without gap, and end at the offset  *)
(* the scan reached: the bytes scanned are covered, nothing beyond is.     *)
(***************************************************************************)
C15_CapStopsScan ==
    (pc # "scan" /\ scan.cap_hit) =>
        /\ Len(chunks) >= 1
        /\ chunks[1].start_offset = 0
        /\ \A i \in 2..Len(chunks) : chunks[i].start_offset = chunks[i - 1].end_offset
        /\ \A i \in 1..Len(chunks) : chunks[i].end_offset <= scan.rpos
        /\ chunks[Len(chunks)].end_offset = scan.rpos

(***************************************************************************)
(* C16.  The scan closes the current chunk at the first line boundary at   *)
(* which the bytes accumulated since the chunk's start reach the target:   *)
(* a chunk closed in the loop is [chunk_start, current_offset), has at     *)
(* least chunk_size_bytes bytes, and had fewer before the read that        *)
(* closed it; every chunk but the last has at least chunk_size_bytes       *)
(* bytes, and in a decodable file fewer without its last line.             *)
(***************************************************************************)
Max(S) == CHOOSE x \in S : \A y \in S : x >= y

ChunkLen(c) == c.end_offset - c.start_offset

\* length of the line of f that ends at offset e
LastLineLen(f, e) == e - Max({ a \in LineStarts(f) : a < e })

C16_Step ==
    pc = "scan" =>
        LET old == scan.chunks
            new == scan'.chunks
        IN  /\ \A i \in 1..(Len(new) - 1) : ChunkLen(new[i]) >= chunk_size_bytes
            /\ (pc' = "scan" /\ new # old) =>
                   /\ new = Append(old, Chunk(scan.chunk_start, scan'.current_offset))
                   /\ ChunkLen(new[Len(new)]) >= chunk_size_bytes
                   /\ scan.chunk_size < chunk_size_bytes
            /\ (pc' = "scan" /\ new = old) => scan'.chunk_size < chunk_size_bytes
            /\ ValidUtf8(file) =>
                   \A i \in 1..(Len(new) - 1) :
                       ChunkLen(new[i]) - LastLineLen(file, new[i].end_offset)
                           < chunk_size_bytes

C17_NoLargerThanSize ==
    pc # "scan" => \A i \in 1..Len(chunks) : ChunkLen(chunks[i]) <= chunk_size_bytes

(***************************************************************************)
(* C17, amended.  Every chunk returned is smaller than the configured      *)
(* chunk size plus the length of the longest line of the file: it may      *)
(* exceed the configured size, by less than one line.                      *)
(***************************************************************************)
LongestLine(f) == Max({ 0 } \cup { Len(Raw(f, a)) : a \in LineStarts(f) })

C17_OvershootBelowOneLine ==
    pc # "scan" =>
        \A i \in 1..Len(chunks) :
            ChunkLen(chunks[i]) < chunk_size_bytes + LongestLine(file)

\* a returned chunk is larger than the configured size
C17_Witness ==
    /\ pc = "validate"
    /\ \E i \in 1..Len(chunks) : ChunkLen(chunks[i]) > chunk_size_bytes

(***************************************************************************)
(* C18.  Within one run the set holds exactly the fingerprints of the      *)
(* lines written to the sink so far; it is empty when the run starts       *)
(* processing, every call works on the same set, and no step removes a     *)
(* fingerprint.                                                            *)
(***************************************************************************)
\* the fingerprints of the lines in the bytes written
SeenOfWritten(w) ==
    { hash_string(to_lowercase(Raw(w.written, a))) : a \in LineStarts(w.written) }

C18_Step ==
    pass' = pass =>
        /\ run'.global_seen = SeenOfWritten(run')
        /\ run.global_seen \subseteq run'.global_seen
        /\ pc = "validate" => run'.global_seen = {}

C19_Step ==
    pass' = pass =>
        /\ run'.lines_processed = Len(run'.emitted) + run'.duplicates_removed
        /\ Cardinality(run'.global_seen) = Len(run'.emitted)
        /\ Cardinality(LineStarts(run'.written)) = Len(run'.emitted)
        /\ run'.lines_processed >= run.lines_processed
        /\ run'.duplicates_removed >= run.duplicates_removed

C19_CountersAgree == [][C19_Step]_vars

\* a finished run that wrote two lines and removed a duplicate
C19_Witness ==
    /\ pc = "done"
    /\ Len(run.emitted) >= 2
    /\ run.duplicates_removed >= 1
    /\ run.lines_processed >= 3

(***************************************************************************)
(* C11.  A call of process_chunk_stream for a chunk whose start_offset is  *)
(* greater than the file's size at that moment fails and leaves the sink,  *)
(* the set and both counters as they were; a chunk whose start_offset is   *)
(* at most the file's size, the size itself included, is accepted.         *)
(***************************************************************************)
C11_Step ==
    invoked' # invoked =>
        IF chunks[idx].start_offset > Len(file)
        THEN /\ pc' = "failed"
             /\ failed_chunk' = idx
             /\ run'.written = run.written
             /\ run'.emitted = run.emitted
             /\ run'.global_seen = run.global_seen
             /\ run'.lines_processed = run.lines_processed
             /\ run'.duplicates_removed = run.duplicates_removed
        ELSE /\ pc' = "in_chunk"
             /\ failed_chunk' = 0
             /\ run' = run

C11_StartBeyondFileRejected == [][C11_Step]_vars

\* the file shrank to the start of one chunk, whose call was accepted; the
\* call for the next chunk, which starts beyond the file, failed
C11_Witness ==
    /\ pc = "failed"
    /\ failed_chunk >= 3
    /\ chunks[failed_chunk].start_offset > Len(file)
    /\ chunks[failed_chunk - 1].start_offset = Len(file)
    /\ Len(run.written) > 0

=============================================================================
